---- MODULE Spec2Model ----
(***************************************************************************)
(* Model of server/hdf5dtype.py of h5serv: the mapping between HDF5 type   *)
(* descriptors (JSON-like values) and numpy dtypes.                        *)
(*                                                                         *)
(* The module's functions are pure; the state machine below draws an input *)
(* and applies them the way the server does: createDataType (or            *)
(* createBaseDataType) on a descriptor, getTypeItem on the dtype obtained, *)
(* getTypeResponse on the type item obtained or on a stored type item, and *)
(* getNumpyTypename on a name.                                             *)
(*                                                                         *)
(* Python values.  A value whose Python type may vary is a tagged record:  *)
(*   [ty |-> "unicode" or "str", s |-> <text>]     a text value            *)
(*   [ty |-> "unicode" or "str", cp |-> <<code points>>]  a field name,    *)
(*        kept as code points because encode('ascii') looks at each one    *)
(*   [ty |-> "int", i |-> n]                       an int                  *)
(*   [ty |-> "float", tenths |-> n]                the float n/10          *)
(*   [ty |-> "tuple" or "list", seq |-> <<..>>]    a tuple / list of ints  *)
(* A dict is a record without a "ty" key; 'key in d' is key \in DOMAIN d.  *)
(* The enumerated keys 'class', 'cset', 'order', 'strpad' hold bare        *)
(* strings.  A call's outcome is Ok(v) or Err(message).                    *)
(***************************************************************************)
EXTENDS Integers, Sequences, FiniteSets, TLC

VARIABLES
    hostOrder,   \* the byte order of the machine numpy runs on: "<" or ">"
    request,     \* the value the caller passed, as it was passed
    typeItem,    \* that value as the calls leave it (createDataType writes to it)
    pc,          \* which call was made last
    dt,          \* outcome of createDataType / createBaseDataType
    item,        \* outcome of getTypeItem
    response,    \* outcome of getTypeResponse
    resolved     \* outcome of getNumpyTypename, with the class it was given

vars == <<hostOrder, request, typeItem, pc, dt, item, response, resolved>>

---------------------------------------------------------------------------
(* Python values *)

U(s) == [ty |-> "unicode", s |-> s]
S(s) == [ty |-> "str", s |-> s]
UName(cp) == [ty |-> "unicode", cp |-> cp]
SName(cp) == [ty |-> "str", cp |-> cp]
PyInt(n) == [ty |-> "int", i |-> n]
PyFloat(t) == [ty |-> "float", tenths |-> t]
PyList(q) == [ty |-> "list", seq |-> q]
PyTuple(q) == [ty |-> "tuple", seq |-> q]

Ok(v) == [ok |-> TRUE, v |-> v]
Err(m) == [ok |-> FALSE, err |-> m]
None == [none |-> TRUE]

IsText(v) == "ty" \in DOMAIN v /\ v.ty \in {"unicode", "str"} /\ "s" \in DOMAIN v
IsInt(v) == "ty" \in DOMAIN v /\ v.ty = "int"
IsDict(v) == "ty" \notin DOMAIN v /\ "none" \notin DOMAIN v /\ "ok" \notin DOMAIN v

\* s.endswith(suf)
EndsWith(s, suf) ==
    /\ Len(s) >= Len(suf)
    /\ SubSeq(s, Len(s) - Len(suf) + 1, Len(s)) = suf

\* s[:-2]
DropLast2(s) == SubSeq(s, 1, Len(s) - 2)

---------------------------------------------------------------------------
(* getNumpyTypename *)

\* the tables of getNumpyTypename: predefined name -> numpy type code
np_int_types ==
    [k \in {"H5T_STD_I8", "H5T_STD_UI8", "H5T_STD_I16", "H5T_STD_UI16",
            "H5T_STD_I32", "H5T_STD_UI32", "H5T_STD_I64", "H5T_STD_UI64"} |->
        CASE k = "H5T_STD_I8" -> "i1"
          [] k = "H5T_STD_UI8" -> "u1"
          [] k = "H5T_STD_I16" -> "i2"
          [] k = "H5T_STD_UI16" -> "u2"
          [] k = "H5T_STD_I32" -> "i4"
          [] k = "H5T_STD_UI32" -> "u4"
          [] k = "H5T_STD_I64" -> "i8"
          [] k = "H5T_STD_UI64" -> "u8"]

np_float_types ==
    [k \in {"H5T_IEEE_F32", "H5T_IEEE_F64"} |->
        CASE k = "H5T_IEEE_F32" -> "f4"
          [] k = "H5T_IEEE_F64" -> "f8"]

MinNameLen == 3

\* variant: the class given is ignored, either table serves any lookup
TableApplies_NoClass(typeClass, cls) == TRUE

\* "typeClass == None or typeClass == <cls>": the table of class cls serves
\* a lookup made without a class or with that class
TableApplies(typeClass, cls) == typeClass = "None" \/ typeClass = cls

\* typeClass is "None", "H5T_INTEGER" or "H5T_FLOAT"; the result is Ok of
\* the numpy type name, kept as its two parts endian and code
getNumpyTypename(hdf5TypeName, typeClass) ==
    IF Len(hdf5TypeName) < MinNameLen THEN Err("Type Error: invalid type")
    ELSE
      LET isLE == EndsWith(hdf5TypeName, "LE")
          isBE == EndsWith(hdf5TypeName, "BE")
          key == IF isLE \/ isBE THEN DropLast2(hdf5TypeName) ELSE hdf5TypeName
          endian == IF ~isLE /\ isBE THEN ">" ELSE "<"
      IN  IF key \in DOMAIN np_int_types /\ TableApplies(typeClass, "H5T_INTEGER")
            THEN Ok([endian |-> endian, code |-> np_int_types[key]])
          ELSE IF key \in DOMAIN np_float_types /\ TableApplies(typeClass, "H5T_FLOAT")
            THEN Ok([endian |-> endian, code |-> np_float_types[key]])
          ELSE Err("Type Error: invalid type")

---------------------------------------------------------------------------
(* numpy and h5py, as far as this file uses them.  A dtype is one of       *)
(*   [dk |-> "scalar", kind, name, itemsize, byteorder]                    *)
(*   [dk |-> "subarray", base |-> <scalar>, shape |-> <<..>>]              *)
(*   [dk |-> "struct", names |-> <<..>>, fields |-> <<dtypes>>]            *)
(*   [dk |-> "object", vlen |-> "str" or "unicode"]                        *)
(*   [dk |-> "object", vlen |-> "dtype", inner |-> <scalar>]               *)

\* numpy's type codes: kind, name and item size
np_codes ==
    [c \in {"i1", "u1", "i2", "u2", "i4", "u4", "i8", "u8", "f4", "f8"} |->
        CASE c = "i1" -> [kind |-> "i", name |-> "int8", itemsize |-> 1]
          [] c = "u1" -> [kind |-> "u", name |-> "uint8", itemsize |-> 1]
          [] c = "i2" -> [kind |-> "i", name |-> "int16", itemsize |-> 2]
          [] c = "u2" -> [kind |-> "u", name |-> "uint16", itemsize |-> 2]
          [] c = "i4" -> [kind |-> "i", name |-> "int32", itemsize |-> 4]
          [] c = "u4" -> [kind |-> "u", name |-> "uint32", itemsize |-> 4]
          [] c = "i8" -> [kind |-> "i", name |-> "int64", itemsize |-> 8]
          [] c = "u8" -> [kind |-> "u", name |-> "uint64", itemsize |-> 8]
          [] c = "f4" -> [kind |-> "f", name |-> "float32", itemsize |-> 4]
          [] c = "f8" -> [kind |-> "f", name |-> "float64", itemsize |-> 8]]

\* dtype.byteorder as numpy normalises it: '|' for a one-byte type, '=' for
\* the host's own order, else the order asked for
np_byteorder(endian, itemsize) ==
    IF itemsize = 1 THEN "|"
    ELSE IF endian = hostOrder THEN "=" ELSE endian

\* np.dtype(endian + code) for a numeric type code
np_numeric(tn) ==
    LET c == np_codes[tn.code]
    IN  [dk |-> "scalar", kind |-> c.kind, name |-> c.name,
         itemsize |-> c.itemsize,
         byteorder |-> np_byteorder(tn.endian, c.itemsize)]

\* np.dtype('S' + n), np.dtype('V' + n)
np_bytes(kind, n) ==
    [dk |-> "scalar", kind |-> kind, name |-> IF kind = "S" THEN "string" ELSE "void",
     itemsize |-> n, byteorder |-> "|"]

RECURSIVE JoinInts(_)
JoinInts(q) ==
    IF Len(q) = 0 THEN ""
    ELSE IF Len(q) = 1 THEN ToString(q[1])
    ELSE ToString(q[1]) \o ", " \o JoinInts(Tail(q))

\* str(v)
PyStr(v) ==
    CASE v.ty \in {"str", "unicode"} -> v.s
      [] v.ty = "int" -> ToString(v.i)
      [] v.ty = "list" -> "[" \o JoinInts(v.seq) \o "]"
      [] v.ty = "tuple" ->
            IF Len(v.seq) = 1 THEN "(" \o ToString(v.seq[1]) \o ",)"
            ELSE "(" \o JoinInts(v.seq) \o ")"

MaxDim == 3
MaxRank == 2

\* the shapes a repeat prefix can denote here
ShapeSeqs == UNION {[1..n -> 2..MaxDim] : n \in 1..MaxRank}

\* the repeat prefix numpy reads in front of a type code: nothing, a count,
\* or a parenthesised tuple; anything else is not a data type
np_repeat(shape) ==
    IF shape = "" THEN Ok(<<>>)
    ELSE IF \E n \in 2..MaxDim : shape = ToString(n)
      THEN Ok(<<CHOOSE n \in 2..MaxDim : shape = ToString(n)>>)
    ELSE IF \E q \in ShapeSeqs : shape = PyStr(PyTuple(q))
      THEN Ok(CHOOSE q \in ShapeSeqs : shape = PyStr(PyTuple(q)))
    ELSE Err("TypeError: data type not understood")

\* np.dtype(shape + <scalar type string>)
np_dtype(shape, scalar) ==
    LET r == np_repeat(shape)
    IN  IF ~r.ok THEN r
        ELSE IF r.v = <<>> THEN Ok(scalar)
        ELSE Ok([dk |-> "subarray", base |-> scalar, shape |-> r.v])

\* np.dtype(shape + 'S' + str(n)), np.dtype('V' + str(n)): a size written
\* with a minus sign is not a data type; 'S0' is one, of item size 0
np_dtype_bytes(shape, kind, n) ==
    IF n < 0 THEN Err("TypeError: data type not understood")
    ELSE np_dtype(shape, np_bytes(kind, n))

\* np.dtype([(name, dt), ...]): a record type; a repeated name is refused
np_struct(subtypes) ==
    IF \E i, j \in 1..Len(subtypes) : i < j /\ subtypes[i][1].cp = subtypes[j][1].cp
      THEN Err("ValueError: field occurs more than once")
    ELSE Ok([dk |-> "struct",
             names |-> [i \in 1..Len(subtypes) |-> subtypes[i][1]],
             fields |-> [i \in 1..Len(subtypes) |-> subtypes[i][2]]])

\* h5py.h5t.special_dtype(vlen=str), (vlen=unicode), (vlen=<dtype>)
special_dtype_text(t) == [dk |-> "object", vlen |-> t]
special_dtype_vlen(inner) == [dk |-> "object", vlen |-> "dtype", inner |-> inner]

\* len(dt), dt.kind, dt.base, dt.itemsize, dt.byteorder, dt.shape
RECURSIVE dt_itemsize(_)
dt_itemsize(d) ==
    CASE d.dk = "scalar" -> d.itemsize
      [] d.dk = "object" -> 8
      [] d.dk = "subarray" ->
            LET RECURSIVE Prod(_)
                Prod(q) == IF q = <<>> THEN 1 ELSE Head(q) * Prod(Tail(q))
            IN  d.base.itemsize * Prod(d.shape)
      [] d.dk = "struct" ->
            LET RECURSIVE Sum(_)
                Sum(q) == IF q = <<>> THEN 0 ELSE dt_itemsize(Head(q)) + Sum(Tail(q))
            IN  Sum(d.fields)

dt_len(d) == IF d.dk = "struct" THEN Len(d.names) ELSE 0
dt_kind(d) ==
    CASE d.dk = "scalar" -> d.kind
      [] d.dk = "object" -> "O"
      [] d.dk \in {"subarray", "struct"} -> "V"
dt_base(d) == IF d.dk = "subarray" THEN d.base ELSE d
dt_byteorder(d) == IF d.dk = "scalar" THEN d.byteorder ELSE "|"
dt_shape(d) == IF d.dk = "subarray" THEN d.shape ELSE <<>>

---------------------------------------------------------------------------
(* createBaseDataType, createDataType *)

IsVariable(v) == IsText(v) /\ v.s = "H5T_VARIABLE"

MaxIntText == 9

\* int(v): an int as it is, a float truncated toward zero, a text parsed as
\* a decimal literal; anything else raises
PyIntOf(v) ==
    CASE v.ty = "int" -> Ok(v.i)
      [] v.ty = "float" ->
            Ok(IF v.tenths >= 0 THEN v.tenths \div 10 ELSE -((-v.tenths) \div 10))
      [] v.ty \in {"str", "unicode"} ->
            IF \E n \in -MaxIntText..MaxIntText : v.s = ToString(n)
              THEN Ok(CHOOSE n \in -MaxIntText..MaxIntText : v.s = ToString(n))
              ELSE Err("ValueError: invalid literal for int()")
      [] OTHER -> Err("TypeError: int() argument must be a string or a number")

\* variant: 'shape' is never read
ShapeOf_Unread(ti) == ""

\* shape = str(typeItem['shape']) when the key is there, else ''
ShapeOf(ti) == IF "shape" \in DOMAIN ti THEN PyStr(ti.shape) ELSE ""

createBaseDataType(ti) ==
    IF IsText(ti) THEN
        LET dtName == getNumpyTypename(ti.s, "None")
        IN  IF dtName.ok THEN Ok(np_numeric(dtName.v)) ELSE dtName
    ELSE IF ~IsDict(ti) THEN Err("Type Error: invalid type")
    ELSE IF "class" \notin DOMAIN ti THEN Err("Type Error: 'class' not provided")
    ELSE
      LET typeClass == ti.class
          shape == ShapeOf(ti)
      IN
      IF typeClass \in {"H5T_INTEGER", "H5T_FLOAT"} THEN
          IF "base" \notin DOMAIN ti THEN Err("Type Error: 'base' not provided")
          ELSE LET baseType == getNumpyTypename(ti.base.s, typeClass)
               IN  IF baseType.ok THEN np_dtype(shape, np_numeric(baseType.v))
                   ELSE baseType
      ELSE IF typeClass = "H5T_STRING" THEN
          IF "strsize" \notin DOMAIN ti THEN Err("Type Error: 'strsize' not provided")
          ELSE IF "cset" \notin DOMAIN ti THEN Err("Type Error: 'cset' not provided")
          ELSE IF IsVariable(ti.strsize) THEN
              IF shape # ""
                THEN Err("Type Error: ArrayType is not supported for variable len types")
              ELSE IF ti.cset = "H5T_CSET_ASCII" THEN Ok(special_dtype_text("str"))
              ELSE IF ti.cset = "H5T_CSET_UTF8" THEN Ok(special_dtype_text("unicode"))
              ELSE Err("Type Error: unexpected 'cset' value")
          ELSE
              LET nStrSize == ti.strsize
              IN  IF ~IsInt(nStrSize)
                    THEN Err("Type Error: expecting integer value for 'strsize'")
                  ELSE np_dtype_bytes(shape, "S", nStrSize.i)
      ELSE IF typeClass = "H5T_VLEN" THEN
          IF shape # ""
            THEN Err("Type Error: ArrayType is not supported for variable len types")
          ELSE IF "base" \notin DOMAIN ti THEN Err("KeyError: 'base'")
          ELSE LET baseType == getNumpyTypename(ti.base.s, "None")
               IN  IF baseType.ok THEN Ok(special_dtype_vlen(np_numeric(baseType.v)))
                   ELSE baseType
      ELSE IF typeClass = "H5T_OPAQUE" THEN
          IF shape # ""
            THEN Err("Type Error: ArrayType is not supported for variable len types")
          ELSE IF "size" \notin DOMAIN ti THEN Err("Type Error: 'size' not provided")
          ELSE LET nSize == PyIntOf(ti.size)
               IN  IF ~nSize.ok THEN nSize
                   ELSE IF nSize.v <= 0
                     THEN Err("Type Error: 'size' must be non-negative")
                   ELSE np_dtype_bytes("", "V", nSize.v)
      ELSE Err("Type Error: Invalid type class")

\* variant: an encoding that takes every character below 256 (latin-1)
encode_latin1(name) ==
    IF \E i \in 1..Len(name.cp) : name.cp[i] >= 256
      THEN Err("UnicodeEncodeError")
      ELSE Ok(SName(name.cp))

\* field_name.encode('ascii'): the same characters as a str, or
\* UnicodeEncodeError when one of them is beyond ASCII
encode_ascii(name) ==
    IF \E i \in 1..Len(name.cp) : name.cp[i] >= 128
      THEN Err("UnicodeEncodeError")
      ELSE Ok(SName(name.cp))

\* createDataType with its effect on its argument: the loop stores the
\* converted name back into each field it visits.  The result is
\* [r |-> the outcome, arg |-> typeItem as the call leaves it].
RECURSIVE createDataTypeM(_)
createDataTypeM(ti) ==
    IF IsText(ti) THEN
        LET dtName == getNumpyTypename(ti.s, "None")
        IN  [r |-> IF dtName.ok THEN Ok(np_numeric(dtName.v)) ELSE dtName, arg |-> ti]
    ELSE IF ~IsDict(ti) THEN [r |-> Err("Type Error: invalid type"), arg |-> ti]
    ELSE IF "class" \notin DOMAIN ti
      THEN [r |-> Err("Type Error: 'class' not provided"), arg |-> ti]
    ELSE IF ti.class = "H5T_COMPOUND" THEN
        IF "fields" \notin DOMAIN ti
          THEN [r |-> Err("Type Error: 'fields' not provided for compound type"), arg |-> ti]
        ELSE IF ti.fields.ty # "list"
          THEN [r |-> Err("Type Error: expected list type for 'fields'"), arg |-> ti]
        ELSE IF ti.fields.items = <<>>
          THEN [r |-> Err("Type Error: no 'field' elements provided"), arg |-> ti]
        ELSE
          LET Store(fields, i, f) == [fields EXCEPT ![i] = f]
              Out(r, fields) ==
                  [r |-> r, arg |-> [ti EXCEPT !.fields.items = fields]]
              RECURSIVE loop(_, _, _)
              loop(i, fields, subtypes) ==
                IF i > Len(fields) THEN Out(np_struct(subtypes), fields)
                ELSE
                  LET field == fields[i]
                  IN
                  IF ~IsDict(field) THEN Out(Err("Type Error: invalid field"), fields)
                  ELSE IF "name" \notin DOMAIN field
                    THEN Out(Err("Type Error: 'name' missing from field"), fields)
                  ELSE IF "type" \notin DOMAIN field
                    THEN Out(Err("Type Error: 'type' missing from field"), fields)
                  ELSE
                    LET field_name == field.name
                        ascii_name == encode_ascii(field_name)
                    IN
                    IF field_name.ty = "unicode" /\ ~ascii_name.ok
                      THEN Out(ascii_name, fields)
                    ELSE IF field_name.ty = "unicode" /\ ascii_name.v.cp # field_name.cp
                      THEN Out(Err("Type Error: none ascii field name not allowed"), fields)
                    ELSE
                      LET named == IF field_name.ty = "unicode"
                                     THEN [field EXCEPT !.name = ascii_name.v]
                                     ELSE field
                          sub == createDataTypeM(named.type)
                          done == [named EXCEPT !.type = sub.arg]
                      IN  IF ~sub.r.ok THEN Out(sub.r, Store(fields, i, done))
                          ELSE loop(i + 1, Store(fields, i, done),
                                    Append(subtypes, <<done.name, sub.r.v>>))
          IN  loop(1, ti.fields.items, <<>>)
    ELSE [r |-> createBaseDataType(ti), arg |-> ti]

createDataType(ti) == createDataTypeM(ti).r

---------------------------------------------------------------------------
(* getBaseType, getTypeElement, getTypeItem *)

\* type_info[k] = v
Put(d, k, v) == (k :> v) @@ d

\* the tables of getBaseType: numpy name -> predefined name
predefined_int_types ==
    [k \in {"int8", "uint8", "int16", "uint16", "int32", "uint32", "int64", "uint64"} |->
        CASE k = "int8" -> "H5T_STD_I8"
          [] k = "uint8" -> "H5T_STD_UI8"
          [] k = "int16" -> "H5T_STD_I16"
          [] k = "uint16" -> "H5T_STD_UI16"
          [] k = "int32" -> "H5T_STD_I32"
          [] k = "uint32" -> "H5T_STD_UI32"
          [] k = "int64" -> "H5T_STD_I64"
          [] k = "uint64" -> "H5T_STD_UI64"]

predefined_float_types ==
    [k \in {"float32", "float64"} |->
        CASE k = "float32" -> "H5T_IEEE_F32"
          [] k = "float64" -> "H5T_IEEE_F64"]

PointerSize == 8

\* h5py.h5t.check_dtype(enum=dt) is None for every dtype built here: the
\* decoder makes no enum dtype, so 'mapping' is never set
getBaseType(d) ==
    IF dt_len(d) > 1 THEN Err("unexpected numpy type passed to getTypeElement")
    ELSE IF dt_kind(d) = "O" THEN Err("Object type passed to getTypeElement")
    ELSE
      LET base == dt_base(d)
          sized == [size |-> PyInt(dt_itemsize(d)), base_size |-> PyInt(dt_itemsize(base))]
          byteorder == IF dt_byteorder(d) = ">" THEN "BE" ELSE "LE"
          prim ==
            IF dt_kind(base) = "S" THEN
                Put(Put(Put(Put(Put(sized, "class", "H5T_STRING"),
                    "cset", "H5T_CSET_ASCII"), "strsize", PyInt(dt_itemsize(d))),
                    "strpad", "H5T_STR_NULLPAD"), "order", "H5T_ORDER_NONE")
            ELSE IF dt_kind(base) = "V" THEN
                Put(Put(sized, "class", "H5T_OPAQUE"), "order", "H5T_ORDER_NONE")
            ELSE IF dt_kind(base) = "i" THEN
                LET info == Put(Put(sized, "class", "H5T_INTEGER"),
                                "order", "H5T_ORDER_" \o byteorder)
                IN  IF base.name \in DOMAIN predefined_int_types
                      THEN Put(info, "base", S(predefined_int_types[base.name] \o byteorder))
                      ELSE info
            ELSE IF dt_kind(base) = "f" THEN
                LET info == Put(Put(sized, "class", "H5T_FLOAT"),
                                "order", "H5T_ORDER_" \o byteorder)
                IN  IF base.name \in DOMAIN predefined_float_types
                      THEN Put(info, "base", S(predefined_float_types[base.name] \o byteorder))
                      ELSE info
            ELSE sized
      IN  IF dt_shape(d) # <<>>
            THEN Ok(Put(Put(prim, "shape", PyTuple(dt_shape(d))), "class", "H5T_ARRAY"))
            ELSE Ok(prim)

\* the keys of b that a lacks are added to a
Merge(a, b) == a @@ b

getTypeElement(d) ==
    IF dt_len(d) > 1 THEN Err("unexpected numpy type passed to getTypeElement")
    ELSE IF dt_kind(d) = "O" THEN
        IF "vlen" \in DOMAIN d THEN
            LET sized == [base_size |-> PyInt(PointerSize)]
                text(cset) ==
                    Put(Put(Put(Put(Put(sized, "class", "H5T_STRING"),
                        "strsize", S("H5T_VARIABLE")), "cset", cset),
                        "strpad", "H5T_STR_NULLTERM"), "order", "H5T_ORDER_NONE")
            IN  IF d.vlen = "str" THEN Ok(text("H5T_CSET_ASCII"))
                ELSE IF d.vlen = "unicode" THEN Ok(text("H5T_CSET_UTF8"))
                ELSE IF d.vlen = "dtype" THEN
                    LET base_type == getBaseType(d.inner)
                    IN  IF ~base_type.ok THEN base_type
                        ELSE Ok(Merge(Put(Put(sized, "class", "H5T_VLEN"),
                                          "size", S("H5T_VARIABLE")),
                                      base_type.v))
                ELSE Err("Unknown h5py vlen type")
        ELSE IF "ref" \in DOMAIN d THEN
            LET info == [class |-> "H5T_REFERENCE", order |-> "H5T_ORDER_NONE"]
            IN  IF d.ref = "Reference" THEN Ok(Put(info, "base", S("H5T_STD_REF_OBJ")))
                ELSE IF d.ref = "RegionReference"
                  THEN Ok(Put(info, "base", S("H5T_STD_REF_DSETREG")))
                ELSE Err("unexpected reference type")
        ELSE Err("unknown object type")
    ELSE getBaseType(d)

getTypeItem(d) ==
    IF dt_len(d) <= 1 THEN getTypeElement(d)
    ELSE
      LET types == [i \in 1..Len(d.names) |-> getTypeElement(d.fields[i])]
      IN  IF \E i \in 1..Len(types) : ~types[i].ok
            THEN types[CHOOSE i \in 1..Len(types) :
                         ~types[i].ok /\ \A j \in 1..(i - 1) : types[j].ok]
            ELSE Ok([class |-> "H5T_COMPOUND",
                     fields |-> [ty |-> "list",
                                 items |-> [i \in 1..Len(d.names) |->
                                     [name |-> d.names[i], type |-> types[i].v]]]])

---------------------------------------------------------------------------
(* getTypeResponse *)

\* variant: 'base' is looked at before 'uuid'
IsCommitted_AfterBase(ti) == "uuid" \in DOMAIN ti /\ "base" \notin DOMAIN ti

\* 'uuid' in typeItem
IsCommitted(ti) == "uuid" \in DOMAIN ti

\* variant: an array with a 'base' collapses too
CollapsingClasses_WithArray ==
    {"H5T_INTEGER", "H5T_FLOAT", "H5T_REFERENCE", "H5T_ARRAY"}

\* the classes whose 'base' is the whole response
CollapsingClasses == {"H5T_INTEGER", "H5T_FLOAT", "H5T_REFERENCE"}

RECURSIVE getTypeResponse(_)
getTypeResponse(ti) ==
    IF ~IsDict(ti) THEN Err("TypeError")
    ELSE IF IsCommitted(ti) THEN Ok(ti.uuid)
    ELSE IF "base" \in DOMAIN ti /\ "class" \notin DOMAIN ti THEN Err("KeyError: 'class'")
    ELSE IF "base" \in DOMAIN ti /\ ti.class \in CollapsingClasses THEN Ok(ti.base)
    ELSE IF "class" \notin DOMAIN ti THEN Err("KeyError: 'class'")
    ELSE IF ti.class = "H5T_COMPOUND" THEN
        IF "fields" \notin DOMAIN ti THEN Err("KeyError: 'fields'")
        ELSE IF ti.fields.ty # "list" THEN Err("TypeError")
        ELSE
          LET fields == ti.fields.items
              wellFormed(f) == IsDict(f) /\ "name" \in DOMAIN f /\ "type" \in DOMAIN f
              types == [i \in 1..Len(fields) |->
                          IF wellFormed(fields[i]) THEN getTypeResponse(fields[i].type)
                          ELSE Err("KeyError")]
          IN  IF \E i \in 1..Len(fields) : ~types[i].ok
                THEN types[CHOOSE i \in 1..Len(fields) :
                             ~types[i].ok /\ \A j \in 1..(i - 1) : types[j].ok]
                ELSE Ok([class |-> "H5T_COMPOUND",
                         fields |-> [ty |-> "list",
                                     items |-> [i \in 1..Len(fields) |->
                                         [name |-> fields[i].name, type |-> types[i].v]]]])
    ELSE Ok(ti)

---------------------------------------------------------------------------
(* The values the functions are applied to *)

MaxFields == 2
MaxDepth == 2

Suffixes == {"", "LE", "BE"}
IntNames == {b \o s : b \in DOMAIN np_int_types, s \in Suffixes}
FloatNames == {b \o s : b \in DOMAIN np_float_types, s \in Suffixes}
KnownNames == IntNames \cup FloatNames
OtherNames == {"", "LE", "BE", "H5T_STD_I32XX", "H5T_STD_I8LELE", "H5T_STD_REF_OBJ",
               "H5T_STD_I128LE", "H5T_IEEE_F16BE"}
TypeNames == KnownNames \cup OtherNames

\* with(d, k, V): d, and d with key k set to each value of V
Opt(D, k, V) == D \cup {Put(d, k, v) : d \in D, v \in V}

Shapes == {PyInt(3), PyList(<<3>>), PyTuple(<<2, 3>>), PyTuple(<<3>>), U("")}

NumericItems ==
    Opt(Opt({[class |-> c] : c \in {"H5T_INTEGER", "H5T_FLOAT"}},
            "base", {U(n) : n \in TypeNames}),
        "shape", Shapes)

StrSizes == {U("H5T_VARIABLE"), PyInt(5), PyInt(0), PyInt(-1), PyFloat(25), U("5")}
Csets == {"H5T_CSET_ASCII", "H5T_CSET_UTF8", "H5T_CSET_LATIN1"}

StringItems ==
    Opt(Opt(Opt({[class |-> "H5T_STRING"]}, "strsize", StrSizes), "cset", Csets),
        "shape", Shapes)

VlenItems ==
    Opt(Opt({[class |-> "H5T_VLEN"]}, "base",
            {U(n) : n \in {"H5T_STD_I32LE", "H5T_STD_UI16BE", "H5T_IEEE_F64BE",
                           "H5T_STD_I8", "H5T_STD_REF_OBJ"}}),
        "shape", Shapes)

Sizes == {PyInt(5), PyInt(0), PyInt(-2), PyFloat(25), PyFloat(5), PyFloat(-25),
          U("3"), U("abc"), PyList(<<3>>)}

OpaqueItems == Opt(Opt({[class |-> "H5T_OPAQUE"]}, "size", Sizes), "shape", Shapes)

\* descriptors of the classes the decoder does not build, descriptors without
\* a class, and values that are no descriptor
OtherItems ==
    Opt(Opt({[class |-> c] : c \in {"H5T_ENUM", "H5T_ARRAY", "H5T_REFERENCE",
                                      "H5T_VLEN", "H5T_INTEGER", "H5T_BOGUS"}},
            "base", {S("H5T_STD_I32LE"), S("H5T_STD_REF_OBJ")}),
        "size", {PyInt(4)})
    \cup {[size |-> PyInt(1), base_size |-> PyInt(1)], [base |-> S("H5T_STD_I8LE")],
          PyInt(7)}

\* a committed type: 'uuid', with whatever else
CommittedItems ==
    Opt(Opt(Opt({[uuid |-> U("1234")]}, "class",
                {"H5T_INTEGER", "H5T_COMPOUND", "H5T_STRING"}),
            "base", {S("H5T_STD_I32LE")}),
        "size", {PyInt(4)})

\* field names: 'a', 'b', a name with a character beyond ASCII, and a str
FieldNames == {UName(<<97>>), UName(<<98>>), UName(<<99, 233>>), SName(<<100>>)}

\* field types: names, descriptors the decoder takes, a committed type
FieldTypes ==
    {U("H5T_STD_I32LE"), U("H5T_IEEE_F64BE"), U("H5T_STD_UI8"), U("H5T_STD_I32XX"),
     [class |-> "H5T_STRING", strsize |-> U("H5T_VARIABLE"), cset |-> "H5T_CSET_ASCII"],
     [class |-> "H5T_INTEGER", base |-> S("H5T_STD_I16BE"), size |-> PyInt(2)],
     [uuid |-> U("1234"), class |-> "H5T_FLOAT", base |-> S("H5T_IEEE_F32LE")]}

Fields(items) == [ty |-> "list", items |-> items]
Compound(items) == [class |-> "H5T_COMPOUND", fields |-> Fields(items)]
Entry(n, t) == [name |-> n, type |-> t]

Entries == {Entry(n, t) : n \in FieldNames, t \in FieldTypes}

\* entries that lack a key, or are no dict
BadEntries == {[name |-> UName(<<97>>)], [name |-> UName(<<233>>)],
               [type |-> U("H5T_STD_I32LE")], PyInt(7)}

FlatCompounds ==
    {Compound(fs) : fs \in UNION {[1..n -> Entries] : n \in 1..MaxFields}}
    \cup {Compound(<<b>>) : b \in BadEntries}
    \cup {Compound(<<e, b>>) : e \in Entries, b \in BadEntries}
    \cup {Compound(<<>>), [class |-> "H5T_COMPOUND"],
          [class |-> "H5T_COMPOUND", fields |-> PyInt(1)]}

\* compounds inside compounds: each level wraps the level below as the only
\* field, as the second field, and as the first of two
NestLeaves ==
    {U("H5T_STD_I32LE"),
     Compound(<<Entry(UName(<<120>>), U("H5T_STD_I32LE")),
                Entry(UName(<<121>>), U("H5T_IEEE_F64LE"))>>),
     Compound(<<Entry(UName(<<233>>), U("H5T_STD_I32LE"))>>),
     [class |-> "H5T_INTEGER", base |-> S("H5T_STD_I32LE"), size |-> PyInt(4)],
     [class |-> "H5T_ARRAY", base |-> S("H5T_STD_I32LE"), shape |-> PyTuple(<<3>>)],
     [size |-> PyInt(1), base_size |-> PyInt(1)],
     [uuid |-> U("1234"), class |-> "H5T_COMPOUND",
      fields |-> Fields(<<Entry(SName(<<120>>), U("H5T_STD_I32LE"))>>)]}

Wrap(t) ==
    {Compound(<<Entry(UName(<<97>>), t)>>),
     Compound(<<Entry(UName(<<97>>), U("H5T_STD_I32LE")), Entry(UName(<<98>>), t)>>),
     Compound(<<Entry(UName(<<97>>), t), Entry(UName(<<98>>), U("H5T_STD_I32XX"))>>)}

RECURSIVE Nested(_)
Nested(d) ==
    IF d = 0 THEN NestLeaves
    ELSE Nested(d - 1) \cup UNION {Wrap(t) : t \in Nested(d - 1)}

Requests ==
    {U(n) : n \in TypeNames} \cup {S(n) : n \in {"H5T_STD_I32LE", "H5T_STD_UI64BE"}}
    \cup NumericItems \cup StringItems \cup VlenItems \cup OpaqueItems
    \cup OtherItems \cup CommittedItems \cup FlatCompounds \cup Nested(MaxDepth)

TypeClasses == {"None", "H5T_INTEGER", "H5T_FLOAT"}

---------------------------------------------------------------------------
(* The state machine *)

Init ==
    /\ hostOrder \in {"<", ">"}
    /\ request \in Requests
    /\ typeItem = request
    /\ pc = "start"
    /\ dt = None
    /\ item = None
    /\ response = None
    /\ resolved = None

\* dt = createDataType(typeItem)
Decode ==
    /\ pc = "start"
    /\ LET out == createDataTypeM(typeItem)
       IN  /\ dt' = out.r
           /\ typeItem' = out.arg
    /\ pc' = "createDataType"
    /\ UNCHANGED <<hostOrder, request, item, response, resolved>>

\* dt = createBaseDataType(typeItem)
DecodeBase ==
    /\ pc = "start"
    /\ dt' = createBaseDataType(typeItem)
    /\ pc' = "createBaseDataType"
    /\ UNCHANGED <<hostOrder, request, typeItem, item, response, resolved>>

\* item = getTypeItem(dt), for a dtype the decoder returned
Encode ==
    /\ pc \in {"createDataType", "createBaseDataType"}
    /\ dt.ok
    /\ item' = getTypeItem(dt.v)
    /\ pc' = "getTypeItem"
    /\ UNCHANGED <<hostOrder, request, typeItem, dt, response, resolved>>

\* response = getTypeResponse(item), for a type item the encoder returned
Canonicalize ==
    /\ pc = "getTypeItem"
    /\ item.ok
    /\ response' = getTypeResponse(item.v)
    /\ pc' = "getTypeResponse"
    /\ UNCHANGED <<hostOrder, request, typeItem, dt, item, resolved>>

\* response = getTypeResponse(typeItem), for a type item kept by the caller
CanonicalizeStored ==
    /\ pc = "start"
    /\ response' = getTypeResponse(typeItem)
    /\ pc' = "getTypeResponse"
    /\ UNCHANGED <<hostOrder, request, typeItem, dt, item, resolved>>

\* getNumpyTypename(typeItem, typeClass) for a name
Resolve ==
    /\ pc = "start"
    /\ IsText(typeItem)
    /\ \E typeClass \in TypeClasses :
          resolved' = [typeClass |-> typeClass,
                       r |-> getNumpyTypename(typeItem.s, typeClass)]
    /\ pc' = "getNumpyTypename"
    /\ UNCHANGED <<hostOrder, request, typeItem, dt, item, response>>

Next == Decode \/ DecodeBase \/ Encode \/ Canonicalize \/ CanonicalizeStored \/ Resolve

Spec == Init /\ [][Next]_vars

---------------------------------------------------------------------------
(* Properties *)

\* what each error message stands for
TypeNameError == "Type Error: invalid type"
UnsupportedCombinationError ==
    "Type Error: ArrayType is not supported for variable len types"
NonAsciiNameErrors == {"UnicodeEncodeError", "Type Error: none ascii field name not allowed"}

Decoded == pc \in {"createDataType", "createBaseDataType"}
\* getTypeItem has run on the decoder's result (dt is then what
\* createDataType returns for request: createBaseDataType refuses a compound)
Encoded == item # None
\* getTypeResponse has run on the encoder's result / on the caller's item
Canonicalized == pc = "getTypeResponse" /\ item # None
CanonicalizedStored == pc = "getTypeResponse" /\ item = None

IsKnownName(v) == IsText(v) /\ v.s \in KnownNames
IsCompound(v) == IsDict(v) /\ "class" \in DOMAIN v /\ v.class = "H5T_COMPOUND"
HasFieldList(v) ==
    /\ IsCompound(v) /\ "fields" \in DOMAIN v /\ v.fields.ty = "list"
    /\ \A i \in 1..Len(v.fields.items) :
          LET f == v.fields.items[i]
          IN  IsDict(f) /\ "name" \in DOMAIN f /\ "type" \in DOMAIN f
NamesOf(v) == [i \in 1..Len(v.fields.items) |-> v.fields.items[i].name.cp]
IsAsciiName(n) == \A i \in 1..Len(n.cp) : n.cp[i] < 128

\* N with its byte order made explicit
Normalized(n) == IF \E b \in DOMAIN np_int_types \cup DOMAIN np_float_types : n = b
                   THEN n \o "LE" ELSE n
DenotesBE(n) == \E b \in DOMAIN np_int_types \cup DOMAIN np_float_types : n = b \o "BE"

\* C1: for every registry-known predefined name N, decoding N, encoding the
\* dtype and canonicalizing the type item gives N again, with the byte
\* order N denotes written out (LE when N has no suffix).
C1_RoundTrip ==
    IsKnownName(request) =>
        /\ Decoded => dt.ok
        /\ Encoded => item.ok
        /\ Canonicalized =>
              /\ response.ok
              /\ IsText(response.v)
              /\ response.v.s = Normalized(request.s)

\* a compound of 1..n fields with pairwise distinct ASCII names and
\* predefined-name types
IsPlainCompound(v) ==
    /\ HasFieldList(v)
    /\ Len(v.fields.items) >= 1
    /\ \A i \in 1..Len(v.fields.items) :
          /\ IsAsciiName(v.fields.items[i].name)
          /\ IsKnownName(v.fields.items[i].type)
    /\ \A i, j \in 1..Len(v.fields.items) : i # j => NamesOf(v)[i] # NamesOf(v)[j]

\* C2: decoding a compound of one or more fields with distinct ASCII names
\* and predefined-name types, then encoding, gives a COMPOUND type item with
\* the same field names in the same order.
C2_CompoundNames ==
    IsPlainCompound(request) =>
        /\ pc = "createDataType" => dt.ok
        /\ Encoded =>
              /\ item.ok
              /\ HasFieldList(item.v)
              /\ NamesOf(item.v) = NamesOf(request)

\* the response r gives the committed identity wherever the item d carries
\* one, at the top or in a field type at any depth
RECURSIVE IdentityWins(_, _)
IdentityWins(d, r) ==
    IF ~IsDict(d) THEN TRUE
    ELSE IF "uuid" \in DOMAIN d THEN r = d.uuid
    ELSE IF HasFieldList(d) THEN
        /\ HasFieldList(r)
        /\ Len(r.fields.items) = Len(d.fields.items)
        /\ \A i \in 1..Len(d.fields.items) :
              IdentityWins(d.fields.items[i].type, r.fields.items[i].type)
    ELSE TRUE

\* C3: getTypeResponse of an item that carries 'uuid' is exactly that
\* identity, whatever the class and the other keys; and in the response to
\* a compound, the type of a field whose type carries 'uuid' is that
\* identity, at any depth.
C3_CommittedIdentity ==
    CanonicalizedStored =>
        /\ (IsDict(request) /\ "uuid" \in DOMAIN request) => response = Ok(request.uuid)
        /\ response.ok => IdentityWins(request, response.v)

RECURSIVE UuidDepth(_)
UuidDepth(d) ==
    IF ~IsDict(d) THEN -1
    ELSE IF "uuid" \in DOMAIN d THEN 0
    ELSE IF HasFieldList(d) /\ \E i \in 1..Len(d.fields.items) :
                                  UuidDepth(d.fields.items[i].type) >= 0
      THEN 1 + UuidDepth(d.fields.items[
                  CHOOSE i \in 1..Len(d.fields.items) :
                      UuidDepth(d.fields.items[i].type) >= 0].type)
    ELSE -1

\* a committed type two compounds deep, with base and class beside the uuid
C3_Witness ==
    /\ CanonicalizedStored
    /\ response.ok
    /\ UuidDepth(request) = 2

IsVariableLength(v) ==
    /\ IsDict(v) /\ "class" \in DOMAIN v
    /\ \/ v.class = "H5T_VLEN"
       \/ v.class = "H5T_STRING" /\ "strsize" \in DOMAIN v /\ IsVariable(v.strsize)

\* the descriptor has what its class needs beside the shape: a STRING its
\* 'cset', a VLEN a 'base' that names a predefined type
HasItsKeys(v) ==
    /\ v.class = "H5T_STRING" => "cset" \in DOMAIN v
    /\ v.class = "H5T_VLEN" => "base" \in DOMAIN v /\ IsKnownName(v.base)

IsEmptyText(v) == IsText(v) /\ v.s = ""

RECURSIVE HasNonAsciiName(_)
HasNonAsciiName(v) ==
    /\ IsCompound(v) /\ "fields" \in DOMAIN v /\ v.fields.ty = "list"
    /\ \E i \in 1..Len(v.fields.items) :
          LET f == v.fields.items[i]
          IN  /\ IsDict(f)
              /\ \/ "name" \in DOMAIN f /\ f.name.ty = "unicode" /\ ~IsAsciiName(f.name)
                 \/ "type" \in DOMAIN f /\ HasNonAsciiName(f.type)

\* v with '?' for every character beyond ASCII in a field name
RECURSIVE Asciified(_)
Asciified(v) ==
    IF ~(IsCompound(v) /\ "fields" \in DOMAIN v /\ v.fields.ty = "list") THEN v
    ELSE [v EXCEPT !.fields.items =
            [i \in 1..Len(v.fields.items) |->
                LET f == v.fields.items[i]
                    g == IF IsDict(f) /\ "name" \in DOMAIN f
                           THEN [f EXCEPT !.name.cp =
                                   [k \in 1..Len(f.name.cp) |->
                                       IF f.name.cp[k] >= 128 THEN 63 ELSE f.name.cp[k]]]
                           ELSE f
                IN  IF IsDict(g) /\ "type" \in DOMAIN g
                      THEN [g EXCEPT !.type = Asciified(g.type)]
                      ELSE g]]

C6_ByteOrder ==
    (IsKnownName(request) /\ Encoded) =>
        /\ item.ok
        /\ "order" \in DOMAIN item.v
        /\ item.v.order = IF DenotesBE(request.s) THEN "H5T_ORDER_BE" ELSE "H5T_ORDER_LE"

\* the base names of the table(s) that serve a lookup with class c
ApplicableBases(c) ==
    (IF c \in {"None", "H5T_INTEGER"} THEN DOMAIN np_int_types ELSE {})
    \cup (IF c \in {"None", "H5T_FLOAT"} THEN DOMAIN np_float_types ELSE {})
TableEntry(b) == IF b \in DOMAIN np_int_types THEN np_int_types[b] ELSE np_float_types[b]

\* C7: getNumpyTypename(name, typeClass) fails with the type-name error when
\* the name is shorter than the minimum length or is not a base name of an
\* applicable table followed by LE, BE or nothing; in every other case it is
\* the table entry with '<' (LE or no suffix) or '>' (BE) in front.  So an
\* INTEGER descriptor with a float base, or a FLOAT descriptor with an
\* integer base, fails to decode.
C7_NameResolution ==
    /\ pc = "getNumpyTypename" =>
          LET n == request.s
              fits(b, s) == b \in ApplicableBases(resolved.typeClass) /\ n = b \o s
          IN  IF Len(n) < MinNameLen
                   \/ ~\E b \in ApplicableBases(resolved.typeClass), s \in Suffixes : fits(b, s)
                THEN resolved.r = Err(TypeNameError)
                ELSE \E b \in ApplicableBases(resolved.typeClass), s \in Suffixes :
                        /\ fits(b, s)
                        /\ resolved.r = Ok([endian |-> IF s = "BE" THEN ">" ELSE "<",
                                            code |-> TableEntry(b)])
    /\ ( /\ Decoded /\ IsDict(request) /\ {"class", "base"} \subseteq DOMAIN request
         /\ \/ request.class = "H5T_INTEGER" /\ request.base.s \in FloatNames
            \/ request.class = "H5T_FLOAT" /\ request.base.s \in IntNames ) =>
          dt = Err(TypeNameError)

\* an integer name looked up as a float is refused
C7_Witness ==
    /\ pc = "getNumpyTypename"
    /\ request.s = "H5T_STD_UI16BE"
    /\ resolved.typeClass = "H5T_FLOAT"
    /\ resolved.r = Err(TypeNameError)

IsPositiveInt(v) == IsInt(v) /\ v.i > 0

\* C8: a STRING descriptor of fixed size decodes only when 'strsize' is a
\* positive integer, and an OPAQUE descriptor only when 'size' is one: a
\* zero, negative or non-integer size yields no dtype.
C8_PositiveSizes ==
    (Decoded /\ IsDict(request) /\ "class" \in DOMAIN request /\ dt.ok) =>
        /\ ( /\ request.class = "H5T_STRING"
             /\ "strsize" \in DOMAIN request
             /\ ~IsVariable(request.strsize) ) => IsPositiveInt(request.strsize)
        /\ (request.class = "H5T_OPAQUE" /\ "size" \in DOMAIN request) =>
              IsPositiveInt(request.size)

\* the item getTypeResponse was given
CanonInput == IF item = None THEN request ELSE item.v

C10_EncodeTotal == Encoded => item.ok

====
